---- MODULE Spec2Model ----
(***************************************************************************)
(* Pinterest Bulk Post Bot (main.py): the main flow as a state machine.    *)
(* Text is a sequence of one-character strings; a URL is a sequence of     *)
(* path chunks; a config mapping is a function from key names to values.   *)
(***************************************************************************)
EXTENDS Integers, Sequences, FiniteSets, TLC

VARIABLES
    pc,             \* position of main()
    cfgFile,        \* what is on disk at args.config
    config,         \* the mapping load_config returned (<<>> before)
    cfgLog,         \* what load_config logged: "none", "info" or "warning"
    argBoard,       \* args.board (<<>> when not given)
    images,         \* discover_images' list
    csv_metadata,   \* load_csv_metadata's dict
    defaults,       \* default_title, default_description, default_link
    prompted,       \* the default-metadata prompts were shown
    board_name,
    driver,         \* "none", "up" or "quit"
    quits,          \* number of driver.quit() calls
    gate,           \* login gate: "none", "AwaitingLogin", "LoggedIn", "Aborted"
    url,            \* driver.current_url
    elapsed,        \* wait_for_login: time.time() since the deadline was computed
    deadline,       \* wait_for_login: deadline, on the same scale
    observed,       \* wait_for_login: current_url as the last poll read it (<<>>: no poll yet)
    asked,          \* wait_for_login: the manual confirmation prompt was shown
    choice,         \* wait_for_login: the normalised answer to it
    i,              \* loop index (1-based), 0 before the loop
    successful,
    failed,
    results,        \* per attempted image, what the loop counted: "ok" or "failed"
    raised,         \* indices of the images whose posting sequence raised an Exception
    navs,           \* images the pin builder was opened for, in order
    pin,            \* title, description, link, board of the pin being posted
    done,           \* steps of the current pin already executed, in order
    warnings,       \* steps of the current pin that logged a warning
    summary,        \* the printed summary <<successful, failed, total>>, or <<>>
    pending,        \* exception in flight: "none", "SystemExit", "Exception", "KeyboardInterrupt"
    fatal,          \* the hard precondition that called sys.exit(1), or "none"
    interruptLogged, \* "Interrupted by user. Stopping..." was logged
    exitCode        \* process exit status, -1 while running

vars == <<pc, cfgFile, config, cfgLog, argBoard, images, csv_metadata, defaults,
          prompted, board_name, driver, quits, gate, url, elapsed, deadline, observed,
          asked, choice, i, successful, failed, results, raised, navs, pin, done,
          warnings, summary, pending, fatal, interruptLogged, exitCode>>

----------------------------------------------------------------------------
(* Bounds of the model *)
NumFiles == 4        \* entries in the images folder
MaxArr == 2          \* elements of a JSON array in the config file
MaxSlip == 2         \* seconds one poll-and-sleep round of wait_for_login may take

----------------------------------------------------------------------------
(* Text: str.strip() and str.lower() on sequences of characters *)
Whitespace == {" ", "\t"}

RECURSIVE LStrip(_)
LStrip(s) == IF s # <<>> /\ Head(s) \in Whitespace THEN LStrip(Tail(s)) ELSE s

RECURSIVE RStrip(_)
RStrip(s) ==
    IF s # <<>> /\ s[Len(s)] \in Whitespace THEN RStrip(SubSeq(s, 1, Len(s) - 1)) ELSE s

Strip(s) == RStrip(LStrip(s))

LowerChar(c) ==
    CASE c = "Y" -> "y"
      [] c = "N" -> "n"
      [] c = "E" -> "e"
      [] c = "S" -> "s"
      [] OTHER -> c

Lower(s) == [k \in 1..Len(s) |-> LowerChar(s[k])]

----------------------------------------------------------------------------
(* load_config *)
LOGIN_WAIT_DEFAULT == 60
DELAY_DEFAULT == 2

Defaults ==
    [board_name |-> <<>>,
     login_wait_seconds |-> LOGIN_WAIT_DEFAULT,
     delay_between_pins |-> DELAY_DEFAULT,
     images_folder |-> "bulk_post_pinterest",
     headless |-> FALSE]

RecognizedKeys == DOMAIN Defaults

\* dict[k] = v
Put(d, k, v) == [x \in DOMAIN d \cup {k} |-> IF x = k THEN v ELSE d[x]]

\* Values a config file of the model may give each key (typed as documented).
FileValues ==
    [board_name |-> {<<"B">>},
     login_wait_seconds |-> {0, 2},
     delay_between_pins |-> {5},
     headless |-> {TRUE},
     theme |-> {"dark"}]

\* The JSON objects over a set of keys, each key absent or given one of its values.
RECURSIVE ObjectsOver(_)
ObjectsOver(ks) ==
    IF ks = {} THEN {<<>>}
    ELSE LET k == CHOOSE x \in ks : TRUE
             rest == ObjectsOver(ks \ {k})
         IN rest \cup {Put(o, k, v) : o \in rest, v \in FileValues[k]}

JsonObjects == ObjectsOver(DOMAIN FileValues)

\* Elements of a JSON array as dict.update iterates them: a two-item element is a
\* key/value pair, an iterable of another length is "badlen" (ValueError), a
\* number, null or boolean is "noniter" (TypeError).
ArrayElements ==
    {[e |-> "pair", k |-> "board_name", v |-> <<"B">>],
     [e |-> "pair", k |-> "login_wait_seconds", v |-> 2],
     [e |-> "badlen"],
     [e |-> "noniter"]}

JsonArrays == UNION {[1..n -> ArrayElements] : n \in 0..MaxArr}

\* A JSON string is iterated character by character: one-character strings.
JsonStrings == {[k \in 1..n |-> [e |-> "badlen"]] : n \in 0..1}

ConfigFiles ==
    {[kind |-> "missing"], [kind |-> "unreadable"], [kind |-> "malformed"],
     [kind |-> "scalar"]}
    \cup {[kind |-> "object", obj |-> o] : o \in JsonObjects}
    \cup {[kind |-> "array", items |-> a] : a \in JsonArrays}
    \cup {[kind |-> "string", items |-> a] : a \in JsonStrings}

\* The exceptions load_config's except clause names.
ConfigCaught == {"ValueError", "IOError"}

\* defaults.update(iterable of pairs): mutates in place, element by element.
RECURSIVE UpdateFromItems(_, _)
UpdateFromItems(d, items) ==
    IF items = <<>> THEN [d |-> d, exc |-> "none"]
    ELSE LET el == Head(items) IN
         CASE el.e = "noniter" -> [d |-> d, exc |-> "TypeError"]
           [] el.e = "badlen" -> [d |-> d, exc |-> "ValueError"]
           [] OTHER -> UpdateFromItems(Put(d, el.k, el.v), Tail(items))

RECURSIVE UpdateFromObject(_, _)
UpdateFromObject(d, o) ==
    IF DOMAIN o = {} THEN d
    ELSE LET k == CHOOSE x \in DOMAIN o : TRUE IN
         UpdateFromObject(Put(d, k, o[k]), [x \in DOMAIN o \ {k} |-> o[x]])

\* defaults.update(user_config) for whatever json.load returned.
DictUpdate(d, f) ==
    CASE f.kind = "object" -> [d |-> UpdateFromObject(d, f.obj), exc |-> "none"]
      [] f.kind \in {"array", "string"} -> UpdateFromItems(d, f.items)
      [] OTHER -> [d |-> d, exc |-> "TypeError"]

\* open() and json.load(): the exception they raise, if any.
ReadError(f) ==
    CASE f.kind = "unreadable" -> "IOError"
      [] f.kind = "malformed" -> "ValueError"
      [] OTHER -> "none"

load_config(f) ==
    IF f.kind = "missing"
    THEN [config |-> Defaults, log |-> "none", exc |-> "none"]
    ELSE LET u == IF ReadError(f) # "none"
                  THEN [d |-> Defaults, exc |-> ReadError(f)]
                  ELSE DictUpdate(Defaults, f)
         IN IF u.exc = "none" THEN [config |-> u.d, log |-> "info", exc |-> "none"]
            ELSE IF u.exc \in ConfigCaught
            THEN [config |-> u.d, log |-> "warning", exc |-> "none"]
            ELSE [config |-> <<>>, log |-> "none", exc |-> u.exc]

\* The config files the main flow is run with.
MainConfigFiles ==
    {[kind |-> "missing"],
     [kind |-> "scalar"],
     [kind |-> "object", obj |-> [login_wait_seconds |-> 2]],
     [kind |-> "object", obj |-> [login_wait_seconds |-> 0, board_name |-> <<"B">>]]}

----------------------------------------------------------------------------
(* main: construction and configuration *)
NoPin == [title |-> <<>>, description |-> <<>>, link |-> <<>>, board |-> <<>>]
NoDefaults == [title |-> <<>>, description |-> <<>>, link |-> <<>>]

InitWith(files) ==
    /\ pc = "start"
    /\ cfgFile \in files
    /\ argBoard \in {<<>>, <<"A">>}
    /\ config = <<>>
    /\ cfgLog = "none"
    /\ images = <<>>
    /\ csv_metadata = <<>>
    /\ defaults = NoDefaults
    /\ prompted = FALSE
    /\ board_name = <<>>
    /\ driver = "none"
    /\ quits = 0
    /\ gate = "none"
    /\ url = <<>>
    /\ elapsed = 0
    /\ deadline = 0
    /\ observed = <<>>
    /\ asked = FALSE
    /\ choice = <<>>
    /\ i = 0
    /\ successful = 0
    /\ failed = 0
    /\ results = <<>>
    /\ raised = {}
    /\ navs = <<>>
    /\ pin = NoPin
    /\ done = <<>>
    /\ warnings = {}
    /\ summary = <<>>
    /\ pending = "none"
    /\ fatal = "none"
    /\ interruptLogged = FALSE
    /\ exitCode = -1

Init == InitWith(MainConfigFiles)

InitConfig == InitWith(ConfigFiles)

\* x or y
Or(x, y) == IF x # <<>> THEN x ELSE y

\* An exception leaves main outside the try statement: traceback, exit status 1.
Crash ==
    /\ pc' = "exited"
    /\ pending' = "Exception"
    /\ exitCode' = 1
    /\ UNCHANGED fatal

\* sys.exit(1) outside the try statement.
Exit1(why) ==
    /\ pc' = "exited"
    /\ pending' = "SystemExit"
    /\ fatal' = why
    /\ exitCode' = 1

\* main, lines 368-375: load the configuration, let the CLI arguments override it.
LoadConfig ==
    /\ pc = "start"
    /\ LET r == load_config(cfgFile) IN
       IF r.exc # "none"
       THEN /\ Crash
            /\ UNCHANGED <<config, cfgLog, board_name>>
       ELSE /\ config' = r.config
            /\ cfgLog' = r.log
            /\ board_name' = Or(argBoard, r.config.board_name)
            /\ pc' = "discover"
            /\ UNCHANGED <<pending, fatal, exitCode>>
    /\ UNCHANGED <<cfgFile, argBoard, images, csv_metadata, defaults, prompted, driver,
                   quits, gate, url, elapsed, deadline, observed, asked, choice, i,
                   successful, failed, results, raised, navs, pin, done, warnings,
                   summary, interruptLogged>>

----------------------------------------------------------------------------
(* discover_images *)
SUPPORTED_EXTENSIONS == {".jpg", ".jpeg", ".png", ".gif", ".webp", ".bmp", ".tiff"}

\* Path.suffix.lower()
SuffixLower(x) ==
    CASE x = ".JPG" -> ".jpg"
      [] x = ".PNG" -> ".png"
      [] x = ".TXT" -> ".txt"
      [] OTHER -> x

\* A file name is its rank in string order and its suffix; a path is a directory
\* and a name.
Name(n, sfx) == [base |-> n, suffix |-> sfx]
NoName == Name(0, "")
basename(path) == path.name

SuffixAt(n) ==
    CASE n % 4 = 1 -> ".jpg"
      [] n % 4 = 2 -> ".PNG"
      [] n % 4 = 3 -> ".txt"
      [] OTHER -> ".gif"

ImageName(n) == Name(n, SuffixAt(n))

\* Folder contents: n regular files and one subdirectory with an image-like name.
Entries(n) ==
    {[name |-> ImageName(k), isFile |-> TRUE] : k \in 1..n}
    \cup {[name |-> Name(NumFiles + 1, ".jpg"), isFile |-> FALSE]}

Folders ==
    {[exists |-> FALSE, entries |-> {}], [exists |-> TRUE, entries |-> {}]}
    \cup {[exists |-> TRUE, entries |-> Entries(n)] : n \in 1..NumFiles}

\* sorted(): ascending sequence of a set of names
RECURSIVE Sorted(_)
Sorted(S) ==
    IF S = {} THEN <<>>
    ELSE LET m == CHOOSE x \in S : \A y \in S : x.base <= y.base
         IN <<m>> \o Sorted(S \ {m})

IsImage(entry) == entry.isFile /\ SuffixLower(entry.name.suffix) \in SUPPORTED_EXTENSIONS

\* The list discover_images builds (lines 133-136), as paths in the folder.
ListImages(folder) ==
    LET names == Sorted({en.name : en \in {x \in folder.entries : IsImage(x)}})
    IN [k \in 1..Len(names) |-> [dir |-> "images", name |-> names[k]]]

\* main, line 382: discover_images(images_folder)
Discover ==
    /\ pc = "discover"
    /\ \E folder \in Folders :
         IF ~folder.exists
         THEN Exit1("folder") /\ UNCHANGED images
         ELSE IF ListImages(folder) = <<>>
         THEN Exit1("noimages") /\ UNCHANGED images
         ELSE /\ images' = ListImages(folder)
              /\ pc' = "csv"
              /\ UNCHANGED <<pending, fatal, exitCode>>
    /\ UNCHANGED <<cfgFile, config, cfgLog, argBoard, csv_metadata, defaults, prompted,
                   board_name, driver, quits, gate, url, elapsed, deadline, observed,
                   asked, choice, i, successful, failed, results, raised, navs, pin,
                   done, warnings, summary, interruptLogged>>

----------------------------------------------------------------------------
(* load_csv_metadata *)
\* A row of the CSV file; a short row leaves the cells after filename None.
Row(path, t, d, l, b) ==
    [filename |-> path, short |-> FALSE, title |-> t, description |-> d, link |-> l,
     board |-> b]

ShortRow(path) ==
    [filename |-> path, short |-> TRUE, title |-> <<>>, description |-> <<>>,
     link |-> <<>>, board |-> <<>>]

Row1 ==
    Row([dir |-> "old", name |-> ImageName(1)], <<" ", "R", "1">>, <<"D", "1">>,
        <<"L", "1">>, <<"B", "1">>)
Row2 == Row([dir |-> "", name |-> ImageName(2)], <<"R", "2">>, <<>>, <<>>, <<>>)
RowNoName == Row([dir |-> "", name |-> NoName], <<"X">>, <<>>, <<>>, <<>>)

CsvFiles ==
    {[kind |-> "none"], [kind |-> "unreadable"],
     [kind |-> "rows", rows |-> <<Row1, Row2>>],
     [kind |-> "rows", rows |-> <<RowNoName, Row2>>],
     [kind |-> "rows", rows |-> <<RowNoName>>],
     [kind |-> "rows", rows |-> <<Row1, ShortRow([dir |-> "", name |-> ImageName(2)])>>]}

\* The exceptions load_csv_metadata's except clause names.
CsvCaught == {"csv.Error", "ValueError", "IOError"}

\* The for loop over the reader (lines 111-119). File names of the model carry no
\* surrounding whitespace, so the strip() of line 112 leaves them as they are; the
\* cells of a short row are None and .strip() on them raises AttributeError.
RECURSIVE ReadRows(_, _)
ReadRows(metadata, rows) ==
    IF rows = <<>> THEN [metadata |-> metadata, exc |-> "none"]
    ELSE LET row == Head(rows)
             key == basename(row.filename)
         IN IF key = NoName THEN ReadRows(metadata, Tail(rows))
            ELSE IF row.short THEN [metadata |-> metadata, exc |-> "AttributeError"]
            ELSE ReadRows(Put(metadata, key,
                              [title |-> Strip(row.title),
                               description |-> Strip(row.description),
                               link |-> Strip(row.link),
                               board |-> Strip(row.board)]),
                          Tail(rows))

load_csv_metadata(f) ==
    IF f.kind = "none" THEN [metadata |-> <<>>, exc |-> "none"]
    ELSE LET r == IF f.kind = "unreadable"
                  THEN [metadata |-> <<>>, exc |-> "IOError"]
                  ELSE ReadRows(<<>>, f.rows)
         IN IF r.exc \in CsvCaught THEN [metadata |-> r.metadata, exc |-> "none"] ELSE r

\* main, line 385
LoadCsv ==
    /\ pc = "csv"
    /\ \E f \in CsvFiles :
         LET r == load_csv_metadata(f) IN
         IF r.exc # "none"
         THEN Crash /\ UNCHANGED csv_metadata
         ELSE /\ csv_metadata' = r.metadata
              /\ pc' = "prompt"
              /\ UNCHANGED <<pending, fatal, exitCode>>
    /\ UNCHANGED <<cfgFile, config, cfgLog, argBoard, images, defaults, prompted,
                   board_name, driver, quits, gate, url, elapsed, deadline, observed,
                   asked, choice, i, successful, failed, results, raised, navs, pin,
                   done, warnings, summary, interruptLogged>>

----------------------------------------------------------------------------
(* main, lines 387-402: interactive defaults *)
TitleAnswers == {<<>>, <<" ", "T">>}
DescriptionAnswers == {<<"D">>}
LinkAnswers == {<<>>}
BoardAnswers == {<<>>, <<"P", " ">>}

\* Variant of NeedsDefaults: the defaults are always asked for.
NeedsDefaults_Always(metadata) == TRUE

\* The guard of the default-metadata prompts (line 392).
NeedsDefaults(metadata) == metadata = <<>>

Prompt ==
    /\ pc = "prompt"
    /\ \/ /\ \E t \in TitleAnswers, d \in DescriptionAnswers, l \in LinkAnswers :
               IF NeedsDefaults(csv_metadata)
               THEN /\ defaults' = [title |-> Strip(t), description |-> Strip(d),
                                    link |-> Strip(l)]
                    /\ prompted' = TRUE
               ELSE UNCHANGED <<defaults, prompted>>
          /\ \E b \in BoardAnswers :
               board_name' = IF board_name = <<>> THEN Strip(b) ELSE board_name
          /\ pc' = "driver"
          /\ UNCHANGED <<pending, fatal, exitCode>>
       \/ \* input() raises EOFError at the first prompt shown
          /\ NeedsDefaults(csv_metadata) \/ board_name = <<>>
          /\ Crash
          /\ UNCHANGED <<defaults, prompted, board_name>>
    /\ UNCHANGED <<cfgFile, config, cfgLog, argBoard, images, csv_metadata, driver,
                   quits, gate, url, elapsed, deadline, observed, asked, choice, i,
                   successful, failed, results, raised, navs, pin, done, warnings,
                   summary, interruptLogged>>

----------------------------------------------------------------------------
(* create_driver *)
CreateDriver ==
    /\ pc = "driver"
    /\ \/ /\ driver' = "up"
          /\ pc' = "login"
          /\ UNCHANGED <<pending, fatal, exitCode>>
       \/ \* webdriver.Chrome raises: logged, sys.exit(1)
          /\ Exit1("browser")
          /\ UNCHANGED driver
    /\ UNCHANGED <<cfgFile, config, cfgLog, argBoard, images, csv_metadata, defaults,
                   prompted, board_name, quits, gate, url, elapsed, deadline, observed,
                   asked, choice, i, successful, failed, results, raised, navs, pin,
                   done, warnings, summary, interruptLogged>>

----------------------------------------------------------------------------
(* The try statement of main (lines 408-464) *)
Host == "https://www.pinterest.com"
PINTEREST_LOGIN_URL == <<Host, "/login", "/">>
PINTEREST_PIN_BUILDER_URL == <<Host, "/pin-builder", "/">>
LoginNextUrl == <<Host, "/login", "/", "?next=/">>
HomeUrl == <<Host, "/">>

\* needle in url
Contains(u, needle) == \E k \in 1..Len(u) : u[k] = needle

\* Where the operator may have taken the browser during one sleep.
UserMoves(u) ==
    IF u = PINTEREST_LOGIN_URL THEN {PINTEREST_LOGIN_URL, LoginNextUrl, HomeUrl}
    ELSE IF u = LoginNextUrl THEN {LoginNextUrl, HomeUrl}
    ELSE {u}

\* An Exception (not caught inside the try statement) on the way to the finally clause.
Escapes ==
    /\ pending' = "Exception"
    /\ pc' = "finally"

\* KeyboardInterrupt: to the except clause of line 459.
Interrupt ==
    /\ pending' = "KeyboardInterrupt"
    /\ pc' = "interrupted"

\* wait_for_login, lines 183-191: open the login page, compute the deadline.
LoginOpen ==
    /\ pc = "login"
    /\ \/ /\ url' = PINTEREST_LOGIN_URL
          /\ gate' = "AwaitingLogin"
          /\ deadline' = elapsed + config.login_wait_seconds
          /\ pc' = "login_poll"
          /\ UNCHANGED pending
       \/ Escapes /\ UNCHANGED <<url, gate, deadline>>
       \/ Interrupt /\ UNCHANGED <<url, gate, deadline>>
    /\ UNCHANGED <<cfgFile, config, cfgLog, argBoard, images, csv_metadata, defaults,
                   prompted, board_name, driver, quits, elapsed, observed, asked,
                   choice, i, successful, failed, results, raised, navs, pin, done,
                   warnings, summary, fatal, interruptLogged, exitCode>>

\* Variant of OnLoginPage: the location is compared with the login URL.
OnLoginPage_Exact(u) == u = PINTEREST_LOGIN_URL

\* The test of line 194.
OnLoginPage(u) == Contains(u, "/login")

\* wait_for_login, lines 192-197: one round of the polling loop, or its end.
LoginPoll ==
    /\ pc = "login_poll"
    /\ IF elapsed < deadline
       THEN \/ /\ observed' = url
               /\ IF ~OnLoginPage(url)
                  THEN /\ gate' = "LoggedIn"
                       /\ pc' = "loop_init"
                       /\ UNCHANGED <<url, elapsed>>
                  ELSE /\ \E d \in 1..MaxSlip : elapsed' = elapsed + d
                       /\ url' \in UserMoves(url)
                       /\ UNCHANGED <<gate, pc>>
               /\ UNCHANGED pending
            \/ Escapes /\ UNCHANGED <<observed, gate, url, elapsed>>
            \/ Interrupt /\ UNCHANGED <<observed, gate, url, elapsed>>
       ELSE /\ pc' = "login_ask"
            /\ UNCHANGED <<observed, gate, url, elapsed, pending>>
    /\ UNCHANGED <<cfgFile, config, cfgLog, argBoard, images, csv_metadata, defaults,
                   prompted, board_name, driver, quits, deadline, asked, choice, i,
                   successful, failed, results, raised, navs, pin, done, warnings,
                   summary, fatal, interruptLogged, exitCode>>

ConfirmAnswers == {<<"y">>, <<" ", "Y">>, <<"n">>, <<"y", "e", "s">>, <<>>}

\* The test of line 201.
LoginConfirmed(c) == c = <<"y">>

\* wait_for_login, lines 199-204: the manual confirmation.
LoginAsk ==
    /\ pc = "login_ask"
    /\ \/ /\ asked' = TRUE
          /\ \E a \in ConfirmAnswers : choice' = Lower(Strip(a))
          /\ IF LoginConfirmed(choice')
             THEN gate' = "LoggedIn" /\ pc' = "loop_init"
             ELSE gate' = "Aborted" /\ pc' = "login_abort"
          /\ UNCHANGED pending
       \/ asked' = TRUE /\ Escapes /\ UNCHANGED <<choice, gate>>
       \/ asked' = TRUE /\ Interrupt /\ UNCHANGED <<choice, gate>>
    /\ UNCHANGED <<cfgFile, config, cfgLog, argBoard, images, csv_metadata, defaults,
                   prompted, board_name, driver, quits, url, elapsed, deadline,
                   observed, i, successful, failed, results, raised, navs, pin, done,
                   warnings, summary, fatal, interruptLogged, exitCode>>

\* Variant of LoginAbort: sys.exit(1) is missing, the run goes on to the loop.
LoginAbort_NoExit ==
    /\ pc = "login_abort"
    /\ driver' = "quit"
    /\ quits' = quits + 1
    /\ pc' = "loop_init"
    /\ UNCHANGED <<cfgFile, config, cfgLog, argBoard, images, csv_metadata, defaults,
                   prompted, board_name, gate, url, elapsed, deadline, observed, asked,
                   choice, i, successful, failed, results, raised, navs, pin, done,
                   warnings, summary, pending, fatal, interruptLogged, exitCode>>

\* main, lines 410-412: login not confirmed.
LoginAbort ==
    /\ pc = "login_abort"
    /\ driver' = "quit"
    /\ quits' = quits + 1
    /\ pending' = "SystemExit"
    /\ fatal' = "login"
    /\ pc' = "finally"
    /\ UNCHANGED <<cfgFile, config, cfgLog, argBoard, images, csv_metadata, defaults,
                   prompted, board_name, gate, url, elapsed, deadline, observed, asked,
                   choice, i, successful, failed, results, raised, navs, pin, done,
                   warnings, summary, interruptLogged, exitCode>>

\* main, lines 414-418; wait_for_login has returned True and its locals are gone.
LoopInit ==
    /\ pc = "loop_init"
    /\ successful' = 0
    /\ failed' = 0
    /\ elapsed' = 0
    /\ deadline' = 0
    /\ observed' = <<>>
    /\ asked' = FALSE
    /\ choice' = <<>>
    /\ pc' = "loop"
    /\ UNCHANGED <<cfgFile, config, cfgLog, argBoard, images, csv_metadata, defaults,
                   prompted, board_name, driver, quits, gate, url, i, results, raised,
                   navs, pin, done, warnings, summary, pending, fatal, interruptLogged,
                   exitCode>>

\* meta.get(field) or fallback (lines 422-427)
Resolve(path, field, fallback) ==
    IF basename(path) \in DOMAIN csv_metadata
    THEN Or(csv_metadata[basename(path)][field], fallback)
    ELSE fallback

ResolvePin(path) ==
    [title |-> Resolve(path, "title", defaults.title),
     description |-> Resolve(path, "description", defaults.description),
     link |-> Resolve(path, "link", defaults.link),
     board |-> Resolve(path, "board", board_name)]

\* for i, image_path in enumerate(images, start=1), lines 420-433
LoopHead ==
    /\ pc = "loop"
    /\ IF i < Len(images)
       THEN /\ i' = i + 1
            /\ pin' = ResolvePin(images[i + 1])
            /\ done' = <<>>
            /\ warnings' = {}
            /\ pc' = "navigate"
       ELSE /\ pc' = "summary"
            /\ UNCHANGED <<i, pin, done, warnings>>
    /\ UNCHANGED <<cfgFile, config, cfgLog, argBoard, images, csv_metadata, defaults,
                   prompted, board_name, driver, quits, gate, url, elapsed, deadline,
                   observed, asked, choice, successful, failed, results, raised, navs,
                   summary, pending, fatal, interruptLogged, exitCode>>

\* What no step of a pin changes.
PinFrame ==
    UNCHANGED <<cfgFile, config, cfgLog, argBoard, images, csv_metadata, defaults,
                prompted, board_name, driver, quits, gate, elapsed, deadline, observed,
                asked, choice, i, successful, failed, results, pin, summary, fatal,
                interruptLogged, exitCode>>

\* An Exception inside the inner try statement: to the except clause of line 449.
Raises ==
    /\ raised' = raised \cup {i}
    /\ pc' = "pin_failed"
    /\ UNCHANGED pending

\* A failure caught where it happens and logged as a warning.
Warns(step, next) ==
    /\ warnings' = warnings \cup {step}
    /\ pc' = next
    /\ UNCHANGED <<raised, pending>>

Proceeds(next) ==
    /\ pc' = next
    /\ UNCHANGED <<raised, warnings, pending>>

\* main, lines 437-438: open the pin builder, sleep delay_between_pins.
Navigate ==
    /\ pc = "navigate"
    /\ done' = Append(done, "navigate")
    /\ navs' = Append(navs, images[i])
    /\ \/ Proceeds("wait_input") /\ url' = PINTEREST_PIN_BUILDER_URL
       \/ Raises /\ UNCHANGED <<warnings, url>>
       \/ Interrupt /\ UNCHANGED <<raised, warnings, url>>
    /\ PinFrame

\* main, lines 441-443: wait_for_element for the file input.
WaitInput ==
    /\ pc = "wait_input"
    /\ done' = Append(done, "wait_input")
    /\ \/ Proceeds("upload")
       \/ Raises /\ UNCHANGED warnings
       \/ Interrupt /\ UNCHANGED <<raised, warnings>>
    /\ UNCHANGED <<navs, url>>
    /\ PinFrame

\* upload_image
Upload ==
    /\ pc = "upload"
    /\ done' = Append(done, "upload")
    /\ \/ Proceeds("title")
       \/ Raises /\ UNCHANGED warnings
       \/ Interrupt /\ UNCHANGED <<raised, warnings>>
    /\ UNCHANGED <<navs, url>>
    /\ PinFrame

\* Variant of FillTitle: no try/except around the title field.
FillTitle_NoCatch ==
    /\ pc = "title"
    /\ done' = Append(done, "title")
    /\ \/ Proceeds("description")
       \/ Raises /\ UNCHANGED warnings
       \/ Interrupt /\ UNCHANGED <<raised, warnings>>
    /\ UNCHANGED <<navs, url>>
    /\ PinFrame

\* fill_pin_details, lines 234-243
FillTitle ==
    /\ pc = "title"
    /\ done' = Append(done, "title")
    /\ \/ Proceeds("description")
       \/ Warns("title", "description")
       \/ Interrupt /\ UNCHANGED <<raised, warnings>>
    /\ UNCHANGED <<navs, url>>
    /\ PinFrame

\* fill_pin_details, lines 246-256
FillDescription ==
    /\ pc = "description"
    /\ done' = Append(done, "description")
    /\ \/ Proceeds("link")
       \/ Warns("description", "link")
       \/ Interrupt /\ UNCHANGED <<raised, warnings>>
    /\ UNCHANGED <<navs, url>>
    /\ PinFrame

\* post_single_pin, line 327: select_board is called for a non-empty board name
AfterDetails == IF pin.board # <<>> THEN "board" ELSE "publish"

\* fill_pin_details, lines 259-268
FillLink ==
    /\ pc = "link"
    /\ done' = Append(done, "link")
    /\ \/ Proceeds(AfterDetails)
       \/ Warns("link", AfterDetails)
       \/ Interrupt /\ UNCHANGED <<raised, warnings>>
    /\ UNCHANGED <<navs, url>>
    /\ PinFrame

\* select_board: the board is chosen and saved, or the search finds no board, or
\* the dropdown button is missing (warning, return), or a step raises (warning).
SelectBoard ==
    /\ pc = "board"
    /\ done' = Append(done, "board")
    /\ \/ Proceeds("publish")
       \/ Warns("board", "publish")
       \/ Interrupt /\ UNCHANGED <<raised, warnings>>
    /\ UNCHANGED <<navs, url>>
    /\ PinFrame

\* post_single_pin, lines 329-330: wait_for_publish returns True, or False after
\* its timeout (warning), or driver.page_source raises.
WaitPublish ==
    /\ pc = "publish"
    /\ done' = Append(done, "publish")
    /\ \/ Proceeds("posted")
       \/ Warns("publish", "posted")
       \/ Raises /\ UNCHANGED warnings
       \/ Interrupt /\ UNCHANGED <<raised, warnings>>
    /\ UNCHANGED <<navs, url>>
    /\ PinFrame

\* What the loop body and the except clause leave alone.
CountFrame ==
    UNCHANGED <<cfgFile, config, cfgLog, argBoard, images, csv_metadata, defaults,
                prompted, board_name, driver, quits, gate, url, elapsed, deadline,
                observed, asked, choice, i, raised, navs, pin, done, warnings, summary,
                pending, fatal, interruptLogged, exitCode>>

\* Variant of PinPosted: the success counter is not incremented.
PinPosted_NoCount ==
    /\ pc = "posted"
    /\ results' = Append(results, "ok")
    /\ pc' = "loop"
    /\ UNCHANGED <<successful, failed>>
    /\ CountFrame

\* main, lines 446-447
PinPosted ==
    /\ pc = "posted"
    /\ successful' = successful + 1
    /\ results' = Append(results, "ok")
    /\ pc' = "loop"
    /\ UNCHANGED failed
    /\ CountFrame

\* Variant of PinFailed: break instead of continue.
PinFailed_Break ==
    /\ pc = "pin_failed"
    /\ failed' = failed + 1
    /\ results' = Append(results, "failed")
    /\ pc' = "summary"
    /\ UNCHANGED successful
    /\ CountFrame

\* main, lines 449-452: except Exception
PinFailed ==
    /\ pc = "pin_failed"
    /\ failed' = failed + 1
    /\ results' = Append(results, "failed")
    /\ pc' = "loop"
    /\ UNCHANGED successful
    /\ CountFrame

\* Variant of Summary: nothing is printed.
Summary_Silent ==
    /\ pc = "summary"
    /\ pc' = "finally"
    /\ UNCHANGED <<cfgFile, config, cfgLog, argBoard, images, csv_metadata, defaults,
                   prompted, board_name, driver, quits, gate, url, elapsed, deadline,
                   observed, asked, choice, i, successful, failed, results, raised,
                   navs, pin, done, warnings, summary, pending, fatal, interruptLogged,
                   exitCode>>

\* main, lines 455-457
Summary ==
    /\ pc = "summary"
    /\ summary' = <<successful, failed, Len(images)>>
    /\ pc' = "finally"
    /\ UNCHANGED <<cfgFile, config, cfgLog, argBoard, images, csv_metadata, defaults,
                   prompted, board_name, driver, quits, gate, url, elapsed, deadline,
                   observed, asked, choice, i, successful, failed, results, raised,
                   navs, pin, done, warnings, pending, fatal, interruptLogged,
                   exitCode>>

\* main, lines 459-460: except KeyboardInterrupt
HandleInterrupt ==
    /\ pc = "interrupted"
    /\ interruptLogged' = TRUE
    /\ pending' = "none"
    /\ pc' = "finally"
    /\ UNCHANGED <<cfgFile, config, cfgLog, argBoard, images, csv_metadata, defaults,
                   prompted, board_name, driver, quits, gate, url, elapsed, deadline,
                   observed, asked, choice, i, successful, failed, results, raised,
                   navs, pin, done, warnings, summary, fatal, exitCode>>

\* The status the interpreter exits with when main ends with exception p in flight.
ExitStatus(p) == IF p = "none" THEN 0 ELSE 1

\* main, lines 462-464: the finally clause, then the end of the process.
Finally ==
    /\ pc = "finally"
    /\ driver' = "quit"
    /\ quits' = quits + 1
    /\ exitCode' = ExitStatus(pending)
    /\ pc' = "exited"
    /\ UNCHANGED <<cfgFile, config, cfgLog, argBoard, images, csv_metadata, defaults,
                   prompted, board_name, gate, url, elapsed, deadline, observed, asked,
                   choice, i, successful, failed, results, raised, navs, pin, done,
                   warnings, summary, pending, fatal, interruptLogged>>

Next ==
    \/ LoadConfig \/ Discover \/ LoadCsv \/ Prompt \/ CreateDriver
    \/ LoginOpen \/ LoginPoll \/ LoginAsk \/ LoginAbort \/ LoopInit \/ LoopHead
    \/ Navigate \/ WaitInput \/ Upload \/ FillTitle \/ FillDescription \/ FillLink
    \/ SelectBoard \/ WaitPublish \/ PinPosted \/ PinFailed \/ Summary
    \/ HandleInterrupt \/ Finally

Spec == Init /\ [][Next]_vars

NextConfig == LoadConfig

SpecConfig == InitConfig /\ [][NextConfig]_vars

----------------------------------------------------------------------------
(* Properties *)

Created == driver # "none"
LoopCompleted == summary # <<>>
Covered(path) == basename(path) \in DOMAIN csv_metadata
Count(seq, x) == Cardinality({k \in 1..Len(seq) : seq[k] = x})

\* C1: once create_driver has returned a session, driver.quit() is called exactly
\* once on every exit path of main, never more than once.
C1_TornDownExactlyOnce ==
    /\ quits <= 1
    /\ (pc = "exited" /\ Created) => quits = 1

\* C2: an image whose posting sequence raises is counted as failed, and the loop
\* goes on: when the loop has run to its end every image was attempted, failed is
\* the number of images that raised and successful the number of the others.
C2_FailureIsolation ==
    /\ \A k \in 1..Len(results) : results[k] = "failed" <=> k \in raised
    /\ pc = "loop" => \A k \in raised : k <= Len(results)
    /\ failed = Count(results, "failed")
    /\ (pc = "summary" \/ LoopCompleted) =>
          /\ navs = images
          /\ failed = Cardinality(raised)
          /\ successful = Len(images) - Cardinality(raised)

C2_Witness ==
    /\ pc = "exited"
    /\ Len(images) = 3
    /\ raised = {2}
    /\ summary = <<2, 1, 3>>
    /\ Len(navs) = 3

\* C3: images are attempted in discovery order, each at most once; at every
\* iteration boundary successful + failed is the number of images attempted, and
\* when the loop completes it is the number of discovered images.
C3_Accounting ==
    /\ successful + failed = Len(results)
    /\ Len(navs) <= Len(images)
    /\ navs = SubSeq(images, 1, Len(navs))
    /\ \A a, b \in 1..Len(navs) : a # b => navs[a] # navs[b]
    /\ pc = "loop" => Len(results) = i /\ Len(navs) = i
    /\ i >= 1 => Len(results) \in {i - 1, i} /\ Len(navs) \in {i - 1, i}
    /\ LoopCompleted =>
          /\ summary = <<successful, failed, Len(images)>>
          /\ successful + failed = Len(images)

C3_Witness ==
    /\ LoopCompleted
    /\ Len(images) = 3
    /\ successful >= 1
    /\ failed >= 1

\* C4: login never detected within the timeout and the manual answer is not "y":
\* the process exits non-zero, no pin is attempted and the session is released.
C4_LoginRefused ==
    /\ gate = "Aborted" =>
          /\ asked
          /\ choice # <<"y">>
          /\ elapsed >= deadline
          /\ navs = <<>> /\ i = 0 /\ results = <<>>
          /\ successful = 0 /\ failed = 0
    /\ (gate = "Aborted" /\ pc = "exited") =>
          /\ exitCode # 0
          /\ driver = "quit"
          /\ quits >= 1

C4_Witness ==
    /\ pc = "exited"
    /\ gate = "Aborted"
    /\ choice = <<"n">>
    /\ deadline > 0

\* C5: the exit code is non-zero exactly when a hard precondition failed (folder
\* missing, no images, browser launch failure, login not confirmed).
C5_ExitCodeOnlyHardPreconditions ==
    pc = "exited" => (exitCode # 0 <=> fatal # "none")

\* C6 as stated: every run that entered the posting loop has printed the summary
\* when the process ends.
C6_SummaryAlwaysPrinted ==
    (pc = "exited" /\ i >= 1) => LoopCompleted

\* C6 as amended: a run that entered the posting loop ends with the summary
\* printed exactly when it was not interrupted; the summary then reports the
\* counters over all images, and an interrupted run prints none.
C6_SummaryUnlessInterrupted ==
    /\ (pc = "exited" /\ i >= 1) => (LoopCompleted <=> ~interruptLogged)
    /\ LoopCompleted =>
          /\ summary = <<successful, failed, Len(images)>>
          /\ Len(results) = Len(images)
    /\ (interruptLogged /\ i >= 1) => Len(results) < Len(images)

C6_Witness ==
    /\ pc = "exited"
    /\ interruptLogged
    /\ summary = <<>>
    /\ Len(results) >= 1

\* C7 as stated: with metadata for some images only, an image with a row is posted
\* with the row's four fields and an image without one with the interactively
\* entered defaults.
C7_DefaultsFillUncovered ==
    (i >= 1 /\ csv_metadata # <<>>) =>
        IF Covered(images[i])
        THEN pin = csv_metadata[basename(images[i])]
        ELSE /\ prompted
             /\ pin.title = defaults.title
             /\ pin.description = defaults.description
             /\ pin.link = defaults.link

\* C7 as amended: with a non-empty metadata mapping the defaults are never asked
\* for and stay empty; an image with a row is posted with the row's title,
\* description and link, and with the row's board or, when that is empty, the
\* run's board name; an image without a row is posted with empty title,
\* description and link and the run's board name. Every image is attempted and
\* counted when the loop completes.
C7_FieldResolution ==
    /\ (i >= 1 /\ csv_metadata # <<>>) =>
          /\ ~prompted
          /\ defaults = NoDefaults
          /\ IF Covered(images[i])
             THEN LET row == csv_metadata[basename(images[i])] IN
                  /\ pin.title = row.title
                  /\ pin.description = row.description
                  /\ pin.link = row.link
                  /\ pin.board = (IF row.board # <<>> THEN row.board ELSE board_name)
             ELSE pin = [title |-> <<>>, description |-> <<>>, link |-> <<>>,
                         board |-> board_name]
    /\ (LoopCompleted /\ csv_metadata # <<>>) =>
          /\ Len(navs) = Len(images)
          /\ successful + failed = Len(images)

C7_Witness ==
    /\ pc = "posted"
    /\ Len(images) = 3
    /\ Cardinality({k \in 1..3 : Covered(images[k])}) = 2
    /\ i = 3
    /\ ~Covered(images[i])
    /\ pin.title = <<>>

DegradedSteps == {"title", "description", "link", "board", "publish"}

ExpectedSteps(p) ==
    <<"navigate", "wait_input", "upload", "title", "description", "link">>
    \o (IF p.board # <<>> THEN <<"board">> ELSE <<>>) \o <<"publish">>

C10_ConfigNeverFatal ==
    pc # "start" =>
        /\ pending = "none"
        /\ cfgFile.kind # "object" => config = Defaults /\ cfgLog = "warning"
        /\ (cfgFile.kind = "object" /\ DOMAIN cfgFile.obj \subseteq RecognizedKeys) =>
              config = [k \in RecognizedKeys |->
                          IF k \in DOMAIN cfgFile.obj THEN cfgFile.obj[k] ELSE Defaults[k]]

====
